---------------------------- MODULE Spec2Model ----------------------------
(***************************************************************************)
(* A model of llm_tools_sandboxed_shell.sandboxed_shell: the construction  *)
(* of the bwrap argument vector from the command, the uid and the ambient  *)
(* environment, the supervision of the child with a wall-clock timeout,    *)
(* and the normalisation of the outcome into the returned text.            *)
(* Text is modelled by TLA+ strings (sequences of characters).             *)
(***************************************************************************)
EXTENDS Integers, Sequences, FiniteSets, TLC

(***************************************************************************)
(* Bounds of the model.                                                    *)
(***************************************************************************)
\* How many invocations run side by side or one after the other.
NumCalls == 2

\* How many background processes a sandboxed command starts at most.
MaxProcs == 1

\* How many variables a small ambient environment holds at most.
MaxEnvVars == 3

\* How many variables, besides PATH, HOME, USER and PWD, a larger ambient
\* environment holds at most.
MaxExtraVars == 2

(***************************************************************************)
(* Text helpers: str.startswith, f"{int}" and its inverse.                 *)
(***************************************************************************)
StartsWith(s, p) == Len(s) >= Len(p) /\ SubSeq(s, 1, Len(p)) = p

EndsWith(s, p) == Len(s) >= Len(p) /\ SubSeq(s, Len(s) - Len(p) + 1, Len(s)) = p

Digits == "0123456789"

RECURSIVE NatToStr(_)
NatToStr(n) ==
    IF n < 10 THEN SubSeq(Digits, n + 1, n + 1)
    ELSE NatToStr(n \div 10) \o SubSeq(Digits, (n % 10) + 1, (n % 10) + 1)

\* f"{n}" for an int n: decimal digits, with a leading minus sign when negative.
IntToStr(n) == IF n < 0 THEN "-" \o NatToStr(0 - n) ELSE NatToStr(n)

DigitValue(c) == CHOOSE d \in 0..9 : SubSeq(Digits, d + 1, d + 1) = c

IsDigits(s) ==
    Len(s) > 0 /\ \A i \in 1..Len(s) :
        \E d \in 0..9 : SubSeq(Digits, d + 1, d + 1) = SubSeq(s, i, i)

RECURSIVE ParseNat(_)
ParseNat(s) ==
    IF Len(s) = 0 THEN 0
    ELSE 10 * ParseNat(SubSeq(s, 1, Len(s) - 1)) + DigitValue(SubSeq(s, Len(s), Len(s)))

\* int(s) for a decimal numeral s with an optional leading minus sign.
ParseInt(s) ==
    IF StartsWith(s, "-") THEN 0 - ParseNat(SubSeq(s, 2, Len(s))) ELSE ParseNat(s)

IsNumeral(s) ==
    IF StartsWith(s, "-") THEN IsDigits(SubSeq(s, 2, Len(s))) ELSE IsDigits(s)

(***************************************************************************)
(* The ambient environment, os.environ: a mapping kept in insertion order, *)
(* modelled as a sequence of <<name, value>> pairs with distinct names.    *)
(***************************************************************************)
EnvNames(env) == {env[i][1] : i \in 1..Len(env)}

\* var in os.environ
EnvHas(env, var) == var \in EnvNames(env)

\* os.environ[var]
EnvLookup(env, var) == env[CHOOSE i \in 1..Len(env) : env[i][1] = var][2]

\* os.environ.get(var, default)
EnvGet(env, var, default) == IF EnvHas(env, var) THEN EnvLookup(env, var) ELSE default


(***************************************************************************)
(* The Sandbox Policy Builder: the argument vector handed to bwrap.        *)
(***************************************************************************)
\* A builder that binds the host root writable.
MountArgs_rw(u) ==
    << "--bind", "/", "/",
       "--dev", "/dev",
       "--proc", "/proc",
       "--tmpfs", "/tmp",
       "--tmpfs", "/var",
       "--tmpfs", "/run",
       "--dir", "/run/user/" \o IntToStr(u) >>

\* Mount operations, with the per-user runtime directory keyed by the uid.
MountArgs(u) ==
    << "--ro-bind", "/", "/",
       "--dev", "/dev",
       "--proc", "/proc",
       "--tmpfs", "/tmp",
       "--tmpfs", "/var",
       "--tmpfs", "/run",
       "--dir", "/run/user/" \o IntToStr(u) >>

\* A builder that leaves the process namespace shared.
UnshareArgs_nopid == << "--unshare-cgroup", "--unshare-ipc", "--unshare-net" >>

\* Namespaces to unshare.
UnshareArgs ==
    << "--unshare-pid", "--unshare-cgroup", "--unshare-ipc", "--unshare-net" >>

CapArgs == << "--cap-drop", "ALL" >>

\* The cleared environment and the three variables that are always set.
EssentialEnvArgs(env) ==
    << "--clearenv",
       "--setenv", "PATH", EnvGet(env, "PATH", "/usr/bin:/bin:/usr/sbin:/sbin"),
       "--setenv", "HOME", EnvGet(env, "HOME", "/tmp"),
       "--setenv", "USER", EnvGet(env, "USER", "sandbox") >>

safe_env_vars == << "LANG", "COLORTERM", "EDITOR", "VISUAL", "PAGER" >>

\* for var in safe_env_vars: if var in os.environ: extend(--setenv var value)
RECURSIVE SafeEnvLoop(_, _)
SafeEnvLoop(vars, env) ==
    IF vars = << >> THEN << >>
    ELSE (IF EnvHas(env, Head(vars))
          THEN << "--setenv", Head(vars), EnvLookup(env, Head(vars)) >>
          ELSE << >>)
         \o SafeEnvLoop(Tail(vars), env)

SafeEnvArgs(env) == SafeEnvLoop(safe_env_vars, env)

\* A loop that forwards every ambient variable, whatever its name.
LcEnvArgs_all(env) ==
    LET Triple(k) == << "--setenv", env[k][1], env[k][2] >>
        F[k \in 0..Len(env)] == IF k = 0 THEN << >> ELSE F[k - 1] \o Triple(k)
    IN  F[Len(env)]

\* for var, value in os.environ.items(): if var.startswith('LC_'): extend(...)
RECURSIVE LcEnvArgs(_)
LcEnvArgs(env) ==
    IF env = << >> THEN << >>
    ELSE (IF StartsWith(Head(env)[1], "LC_")
          THEN << "--setenv", Head(env)[1], Head(env)[2] >>
          ELSE << >>)
         \o LcEnvArgs(Tail(env))

\* A builder that appends the command without the terminator and the shell.
FinalArgs_bare(env, command_text) ==
    << "--chdir", EnvGet(env, "PWD", "/tmp"),
       "--new-session",
       command_text >>

\* Working directory, new session, and the command after the terminator.
FinalArgs(env, command_text) ==
    << "--chdir", EnvGet(env, "PWD", "/tmp"),
       "--new-session",
       "--", "/bin/sh", "-c", command_text >>

\* A builder that sets the environment before the namespaces are unshared.
BuildArgs_envfirst(u, env, command_text) ==
    << "bwrap", "--die-with-parent" >>
        \o MountArgs(u)
        \o EssentialEnvArgs(env)
        \o SafeEnvArgs(env)
        \o LcEnvArgs(env)
        \o UnshareArgs
        \o CapArgs
        \o FinalArgs(env, command_text)

\* bwrap_args as it stands when subprocess.run is called.
BuildArgs(u, env, command_text) ==
    << "bwrap", "--die-with-parent" >>
        \o MountArgs(u)
        \o UnshareArgs
        \o CapArgs
        \o EssentialEnvArgs(env)
        \o SafeEnvArgs(env)
        \o LcEnvArgs(env)
        \o FinalArgs(env, command_text)

(***************************************************************************)
(* The isolation front-end's side of the argument vector: bwrap reads its  *)
(* options left to right, each with a fixed number of operands, up to the  *)
(* terminator "--" or the first argument that does not start with "-".     *)
(***************************************************************************)
Arity0 == { "--die-with-parent", "--unshare-pid", "--unshare-cgroup", "--unshare-ipc",
            "--unshare-net", "--unshare-user", "--unshare-uts", "--unshare-all",
            "--share-net", "--clearenv", "--new-session", "--as-pid-1" }

Arity1 == { "--dev", "--proc", "--tmpfs", "--dir", "--cap-drop", "--cap-add", "--chdir",
            "--unsetenv", "--remount-ro", "--hostname", "--uid", "--gid" }

Arity2 == { "--ro-bind", "--bind", "--dev-bind", "--ro-bind-try", "--bind-try",
            "--dev-bind-try", "--setenv", "--symlink" }

OptionArity(o) ==
    IF o \in Arity0 THEN 0
    ELSE IF o \in Arity1 THEN 1
    ELSE IF o \in Arity2 THEN 2
    ELSE 0 - 1

\* The options read from position i on, each with its operands and the position it
\* was read at; cmd is the command line left after them; ok is FALSE when bwrap
\* rejects the vector (unknown option, missing operand, no command).
RECURSIVE ParseFrom(_, _, _)
ParseFrom(argv, i, acc) ==
    IF i > Len(argv)
    THEN [ops |-> acc, cmd |-> << >>, ok |-> FALSE]
    ELSE IF argv[i] = "--"
    THEN [ops |-> acc, cmd |-> SubSeq(argv, i + 1, Len(argv)), ok |-> i < Len(argv)]
    ELSE IF ~StartsWith(argv[i], "-")
    THEN [ops |-> acc, cmd |-> SubSeq(argv, i, Len(argv)), ok |-> TRUE]
    ELSE IF OptionArity(argv[i]) < 0 \/ i + OptionArity(argv[i]) > Len(argv)
    THEN [ops |-> acc, cmd |-> << >>, ok |-> FALSE]
    ELSE ParseFrom(argv, i + 1 + OptionArity(argv[i]),
                   Append(acc, [opt |-> argv[i],
                                args |-> SubSeq(argv, i + 1, i + OptionArity(argv[i])),
                                pos |-> i]))

\* argv[1] is the program name.
ParseArgs(argv) == ParseFrom(argv, 2, << >>)

MountOptions == { "--ro-bind", "--bind", "--dev-bind", "--ro-bind-try", "--bind-try",
                  "--dev-bind-try", "--dev", "--proc", "--tmpfs" }

IsMountOp(op) == op.opt \in MountOptions

\* The mounts in the order bwrap performs them; the mount point is the last operand,
\* and a bind names the host path it exposes before it.
MountTable(ops) ==
    LET ms == SelectSeq(ops, IsMountOp)
    IN  [k \in 1..Len(ms) |->
            [kind |-> ms[k].opt,
             src  |-> IF Len(ms[k].args) = 2 THEN ms[k].args[1] ELSE "",
             dest |-> ms[k].args[Len(ms[k].args)]]]

\* The child's environment: bwrap starts from the environment it inherited (the
\* caller's, as subprocess.run passes no env) and applies --clearenv, --setenv and
\* --unsetenv in order.  An environment is a set of <<name, value>> pairs here.
RECURSIVE ApplyEnvOps(_, _)
ApplyEnvOps(ops, envset) ==
    IF ops = << >> THEN envset
    ELSE LET op == Head(ops)
             next == CASE op.opt = "--clearenv" -> {}
                       [] op.opt = "--setenv" ->
                            {e \in envset : e[1] # op.args[1]} \cup {<<op.args[1], op.args[2]>>}
                       [] op.opt = "--unsetenv" -> {e \in envset : e[1] # op.args[1]}
                       [] OTHER -> envset
         IN  ApplyEnvOps(Tail(ops), next)

EnvAsSet(env) == {env[i] : i \in 1..Len(env)}

IsChdir(op) == op.opt = "--chdir"

\* What bwrap sets up for the command from the vector and its own environment.
Sandbox(argv, env) ==
    LET p == ParseArgs(argv)
        cd == SelectSeq(p.ops, IsChdir)
    IN  [ ok     |-> p.ok,
          ops    |-> p.ops,
          mounts |-> MountTable(p.ops),
          env    |-> ApplyEnvOps(p.ops, EnvAsSet(env)),
          cwd    |-> IF cd = << >> THEN "" ELSE cd[Len(cd)].args[1],
          flags  |-> {p.ops[k].opt : k \in {j \in 1..Len(p.ops) : p.ops[j].args = << >>}},
          cmd    |-> p.cmd ]

NoSandbox ==
    [ ok |-> FALSE, ops |-> << >>, mounts |-> << >>, env |-> {}, cwd |-> "",
      flags |-> {}, cmd |-> << >> ]

\* Whether the mount point dest covers path.
Covers(dest, path) == dest = "/" \/ path = dest \/ StartsWith(path, dest \o "/")

\* The mount that serves path: the last one performed among those that cover it
\* (a later mount overlays an earlier one), 0 when none does.
ServingMount(mounts, path) ==
    LET hits == {k \in 1..Len(mounts) : Covers(mounts[k].dest, path)}
    IN  IF hits = {} THEN 0 ELSE CHOOSE k \in hits : \A j \in hits : j <= k

\* What becomes of a write to path inside the sandbox: refused by a read-only bind,
\* passed to the host by a writable bind, kept in the call's own tmpfs, or taken by
\* an entry of the fresh /dev or /proc (a device such as /dev/null accepts it).
WriteOutcome(mounts, path) ==
    LET k == ServingMount(mounts, path)
    IN  IF k = 0 THEN "nowhere"
        ELSE CASE mounts[k].kind \in {"--ro-bind", "--ro-bind-try"} -> "rejected"
               [] mounts[k].kind \in {"--bind", "--bind-try", "--dev-bind", "--dev-bind-try"} -> "host"
               [] mounts[k].kind = "--tmpfs" -> "scratch"
               [] mounts[k].kind = "--dev" -> "device"
               [] OTHER -> "process"

(***************************************************************************)
(* The Process Supervisor's exceptions and the Result Normalizer.          *)
(***************************************************************************)
\* A deadline of half a minute.
TimeoutSeconds_half == 60 \div 2

\* The deadline passed to subprocess.run, in seconds.
TimeoutSeconds == 60

\* Python's exception hierarchy, as far as the classes raised here go.
ParentClass(c) ==
    CASE c = "FileNotFoundError"  -> "OSError"
      [] c = "PermissionError"    -> "OSError"
      [] c = "OSError"            -> "Exception"
      [] c = "TimeoutExpired"     -> "SubprocessError"
      [] c = "SubprocessError"    -> "Exception"
      [] c = "UnicodeDecodeError" -> "ValueError"
      [] c = "ValueError"         -> "Exception"
      [] c = "Exception"          -> "BaseException"
      [] OTHER                    -> "object"

RECURSIVE IsSubclass(_, _)
IsSubclass(c, d) ==
    IF c = d THEN TRUE
    ELSE IF c = "object" THEN FALSE
    ELSE IsSubclass(ParentClass(c), d)

\* A try statement whose last clause catches OSError only.
ExceptClauses_oserror == << "TimeoutExpired", "FileNotFoundError", "OSError" >>

\* The except clauses of the try statement, in order.
ExceptClauses == << "TimeoutExpired", "FileNotFoundError", "Exception" >>

\* The first clause that matches the raised exception, 0 when none does.
MatchingClause(cls) ==
    LET hits == {k \in 1..Len(ExceptClauses) : IsSubclass(cls, ExceptClauses[k])}
    IN  IF hits = {} THEN 0 ELSE CHOOSE k \in hits : \A j \in hits : k <= j

\* What the matching clause returns.
HandlerText(clause, e) ==
    CASE clause = "TimeoutExpired" -> "[Error: Command timed out after 60 seconds]"
      [] clause = "FileNotFoundError" ->
           "[Error: bubblewrap (bwrap) not found. Please install bubblewrap: apt-get install bubblewrap]"
      [] OTHER -> "[Error executing command: " \o e.msg \o "]"

\* A formatter that appends the stderr section whether or not stderr is empty.
StderrSection_always(stderr) == "\n[stderr]:\n" \o stderr

\* if result.stderr: output += "\n[stderr]:\n" + result.stderr
StderrSection(stderr) == IF stderr # "" THEN "\n[stderr]:\n" \o stderr ELSE ""

\* A formatter that reports positive exit codes only.
ExitCodeSection_positive(returncode) ==
    IF returncode > 0 THEN "\n[Exit code: " \o IntToStr(returncode) \o "]" ELSE ""

\* if result.returncode != 0: output += f"\n[Exit code: {result.returncode}]"
ExitCodeSection(returncode) ==
    IF returncode # 0 THEN "\n[Exit code: " \o IntToStr(returncode) \o "]" ELSE ""

\* A formatter that returns the combined text as it is.
ReturnValue_raw(out) == out

\* return output if output else "[No output]"
ReturnValue(out) == IF out # "" THEN out ELSE "[No output]"

(***************************************************************************)
(* Inputs of the model.                                                    *)
(***************************************************************************)
CoreNames == { "PATH", "HOME", "USER", "PWD" }

ExtraNames == { "LANG", "LANGUAGE", "COLORTERM", "EDITOR", "VISUAL", "PAGER",
                "LC_ALL", "LC_CTYPE", "LC", "XLC_ALL", "SSH_AUTH_SOCK", "GPG_AGENT_INFO" }

\* An insertion order of the names.
EnvOrder ==
    << "SSH_AUTH_SOCK", "LC_CTYPE", "PATH", "LANG", "HOME", "XLC_ALL", "PAGER", "USER",
       "LC_ALL", "EDITOR", "GPG_AGENT_INFO", "PWD", "LANGUAGE", "VISUAL", "LC", "COLORTERM" >>

\* A value of each variable; the hostile ones read like bwrap options.
EnvValue(name, hostile) ==
    IF hostile
    THEN CASE name = "PATH" -> "--bind"
           [] name = "HOME" -> "--"
           [] name = "PWD"  -> "--share-net"
           [] name = "LANG" -> "--setenv"
           [] name = "LC_ALL" -> "--unsetenv"
           [] OTHER -> "--dev-bind"
    ELSE CASE name = "PATH" -> "/usr/local/bin:/usr/bin"
           [] name = "HOME" -> "/home/alice"
           [] name = "USER" -> "alice"
           [] name = "PWD"  -> "/home/alice/src"
           [] name = "SSH_AUTH_SOCK" -> "/run/user/1000/keyring/ssh"
           [] name = "GPG_AGENT_INFO" -> "/run/user/1000/gnupg/S.gpg-agent:0:1"
           [] name = "EDITOR" -> "vi"
           [] name = "VISUAL" -> "emacs"
           [] name = "PAGER" -> "less"
           [] name = "COLORTERM" -> "truecolor"
           [] name = "LANGUAGE" -> "en_GB:en"
           [] name = "LC_CTYPE" -> "C.UTF-8"
           [] OTHER -> "en_GB.UTF-8"

Reverse(seq) == [k \in 1..Len(seq) |-> seq[Len(seq) + 1 - k]]

\* os.environ holding the names of dom, inserted in EnvOrder or in its reverse.
MakeEnv(dom, hostile, reversed) ==
    LET ord == IF reversed THEN Reverse(EnvOrder) ELSE EnvOrder
        InDom(n) == n \in dom
        names == SelectSeq(ord, InDom)
    IN  [k \in 1..Len(names) |-> <<names[k], EnvValue(names[k], hostile)>>]

\* The order and the kind of values of an environment of the model.
EnvModes == { <<FALSE, FALSE>>, <<FALSE, TRUE>>, <<TRUE, FALSE>> }

\* Small environments of any names, and environments that hold PATH, HOME, USER
\* and PWD with a few more.
EnvDomains ==
    {d \in SUBSET (CoreNames \cup ExtraNames) : Cardinality(d) <= MaxEnvVars}
        \cup {CoreNames \cup x : x \in {y \in SUBSET ExtraNames : Cardinality(y) <= MaxExtraVars}}

Environments == { MakeEnv(d, m[1], m[2]) : d \in EnvDomains, m \in EnvModes }

Commands == { "ls -la /", "--", "--share-net" }

Uids == { 0, 1000 }

(***************************************************************************)
(* The state of one invocation of sandboxed_shell.                         *)
(***************************************************************************)
VARIABLES
    pc,          \* where the call stands
    command,     \* the command argument
    environ,     \* os.environ
    uid,         \* os.getuid()
    bwrap_args,  \* the argument vector
    sandbox,     \* what bwrap set up from the vector, once launched
    child,       \* the bwrap process: "none", "running", "exited" (and reaped),
                 \* "killed", "reaped" (after the kill)
    clock,       \* seconds subprocess.run has waited for the running child
    result,      \* the CompletedProcess: returncode, stdout, stderr
    exc,         \* the exception raised inside the try statement
    output,      \* the local variable output
    ret,         \* the value returned to the caller, once pc is "returned"
    raised,      \* the exception class that left the function, "" when none
    host,        \* the files of the host, each with who wrote it
    calls        \* several invocations side by side: what each one's sandbox holds

vars == << pc, command, environ, uid, bwrap_args, sandbox, child, clock, result, exc,
           output, ret, raised, host, calls >>

\* The state of the one invocation followed step by step.
callVars == << pc, command, environ, uid, bwrap_args, sandbox, child, clock, result, exc,
               output, ret, raised >>

NoResult == [returncode |-> 0, stdout |-> "", stderr |-> ""]
NoException == [cls |-> "", msg |-> ""]

ReturnCodes == { 0, 1, 42, 100, 255, 0 - 9 }
Stdouts == { "", "hi\n", "[No output]", "a\n[Exit code: 7]" }
Stderrs == { "", "sh: 1: nope: not found\n", "\n[stderr]:\n" }

\* Exceptions Popen raises when the child cannot be started.
LaunchExceptions ==
    { [cls |-> "FileNotFoundError", msg |-> "[Errno 2] No such file or directory: 'bwrap'"],
      [cls |-> "PermissionError", msg |-> "[Errno 13] Permission denied: 'bwrap'"],
      [cls |-> "OSError", msg |-> "[Errno 12] Cannot allocate memory"],
      [cls |-> "ValueError", msg |-> "embedded null byte"],
      [cls |-> "Exception", msg |-> ""] }

CallIds == 1..NumCalls

\* Who wrote a file: the host itself, or the invocation with that number.
HostWriter == 0
NoFile == 0 - 1

HostInitial == { << "/etc/hostname", HostWriter >>, << "/tmp/testfile", HostWriter >> }

IsoPaths == { "/tmp/testfile", "/etc/hostname" }

IsoEnviron == MakeEnv(CoreNames \cup {"LANG", "SSH_AUTH_SOCK"}, FALSE, FALSE)

IsoCommands == { "echo 'test content' > /tmp/testfile && cat /tmp/testfile", "sleep 120 &" }

IdleCall ==
    [ phase |-> "idle", mounts |-> << >>, flags |-> {}, scratch |-> {}, procs |-> 0,
      saw |-> {} ]

InitWith(envs, cmds, uids) ==
    /\ pc = "build"
    /\ command \in cmds
    /\ environ \in envs
    /\ uid \in uids
    /\ bwrap_args = << >>
    /\ sandbox = NoSandbox
    /\ child = "none"
    /\ clock = 0
    /\ result = NoResult
    /\ exc = NoException
    /\ output = ""
    /\ ret = ""
    /\ raised = ""
    /\ host = HostInitial
    /\ calls = [c \in CallIds |-> IdleCall]

\* Lines 42-106: the argument vector is built.
Build ==
    /\ pc = "build"
    /\ bwrap_args' = BuildArgs(uid, environ, command)
    /\ pc' = "run"
    /\ UNCHANGED << host, calls >>
    /\ UNCHANGED << command, environ, uid, sandbox, child, clock, result, exc, output,
                    ret, raised >>

\* subprocess.run starts bwrap, which sets the sandbox up and runs the command.
LaunchOk ==
    /\ pc = "run"
    /\ sandbox' = Sandbox(bwrap_args, environ)
    /\ child' = "running"
    /\ clock' = 0
    /\ pc' = "wait"
    /\ UNCHANGED << host, calls >>
    /\ UNCHANGED << command, environ, uid, bwrap_args, result, exc, output, ret, raised >>

\* subprocess.run cannot start bwrap and raises.
LaunchFails ==
    /\ pc = "run"
    /\ \E e \in LaunchExceptions : exc' = e
    /\ pc' = "except"
    /\ UNCHANGED << host, calls >>
    /\ UNCHANGED << command, environ, uid, bwrap_args, sandbox, child, clock, result,
                    output, ret, raised >>

\* A second passes while the child runs.
Tick ==
    /\ pc = "wait"
    /\ child = "running"
    /\ clock < TimeoutSeconds
    /\ clock' = clock + 1
    /\ UNCHANGED << host, calls >>
    /\ UNCHANGED << pc, command, environ, uid, bwrap_args, sandbox, child, result, exc,
                    output, ret, raised >>

\* The child exits before the deadline; subprocess.run reaps it and returns the
\* CompletedProcess with the captured text.
ChildExits ==
    /\ pc = "wait"
    /\ child = "running"
    /\ clock < TimeoutSeconds
    /\ \E rc \in ReturnCodes, out \in Stdouts, err \in Stderrs :
          result' = [returncode |-> rc, stdout |-> out, stderr |-> err]
    /\ child' = "exited"
    /\ clock' = 0
    /\ pc' = "combine"
    /\ UNCHANGED << host, calls >>
    /\ UNCHANGED << command, environ, uid, bwrap_args, sandbox, exc, output, ret, raised >>

\* The child exits before the deadline with output that does not decode as text.
DecodeFails ==
    /\ pc = "wait"
    /\ child = "running"
    /\ clock < TimeoutSeconds
    /\ exc' = [cls |-> "UnicodeDecodeError",
               msg |-> "'utf-8' codec can't decode byte 0xff in position 0: invalid start byte"]
    /\ child' = "exited"
    /\ clock' = 0
    /\ pc' = "except"
    /\ UNCHANGED << host, calls >>
    /\ UNCHANGED << command, environ, uid, bwrap_args, sandbox, result, output, ret, raised >>

\* The deadline passes with the child still running: subprocess.run kills it ...
DeadlineKill ==
    /\ pc = "wait"
    /\ child = "running"
    /\ clock = TimeoutSeconds
    /\ child' = "killed"
    /\ UNCHANGED << host, calls >>
    /\ UNCHANGED << pc, command, environ, uid, bwrap_args, sandbox, clock, result, exc,
                    output, ret, raised >>

\* ... waits for it, and raises TimeoutExpired.
DeadlineReap ==
    /\ pc = "wait"
    /\ child = "killed"
    /\ child' = "reaped"
    /\ exc' = [cls |-> "TimeoutExpired",
               msg |-> "Command timed out after " \o IntToStr(clock) \o " seconds"]
    /\ pc' = "except"
    /\ UNCHANGED << host, calls >>
    /\ UNCHANGED << command, environ, uid, bwrap_args, sandbox, clock, result, output,
                    ret, raised >>

\* Line 119.
Combine ==
    /\ pc = "combine"
    /\ output' = result.stdout
    /\ pc' = "stderr"
    /\ UNCHANGED << host, calls >>
    /\ UNCHANGED << command, environ, uid, bwrap_args, sandbox, child, clock, result, exc,
                    ret, raised >>

\* Lines 120-121.
AppendStderr ==
    /\ pc = "stderr"
    /\ output' = output \o StderrSection(result.stderr)
    /\ pc' = "exitcode"
    /\ UNCHANGED << host, calls >>
    /\ UNCHANGED << command, environ, uid, bwrap_args, sandbox, child, clock, result, exc,
                    ret, raised >>

\* Lines 124-125.
AppendExitCode ==
    /\ pc = "exitcode"
    /\ output' = output \o ExitCodeSection(result.returncode)
    /\ pc' = "return"
    /\ UNCHANGED << host, calls >>
    /\ UNCHANGED << command, environ, uid, bwrap_args, sandbox, child, clock, result, exc,
                    ret, raised >>

\* Line 127.
ReturnOutput ==
    /\ pc = "return"
    /\ ret' = ReturnValue(output)
    /\ pc' = "returned"
    /\ UNCHANGED << host, calls >>
    /\ UNCHANGED << command, environ, uid, bwrap_args, sandbox, child, clock, result, exc,
                    output, raised >>

\* Lines 129-134: the first matching except clause returns its text; an exception
\* no clause matches leaves the function.
HandleException ==
    /\ pc = "except"
    /\ IF MatchingClause(exc.cls) = 0
       THEN /\ raised' = exc.cls
            /\ pc' = "raised"
            /\ ret' = ret
       ELSE /\ ret' = HandlerText(ExceptClauses[MatchingClause(exc.cls)], exc)
            /\ pc' = "returned"
            /\ raised' = raised
    /\ UNCHANGED << host, calls >>
    /\ UNCHANGED << command, environ, uid, bwrap_args, sandbox, child, clock, result, exc,
                    output >>

\* The call, for a few environments and every outcome of the child.
RunEnvironments ==
    { MakeEnv({}, FALSE, FALSE),
      MakeEnv(CoreNames \cup {"LANG", "LC_ALL", "SSH_AUTH_SOCK"}, FALSE, FALSE) }

Init == InitWith(RunEnvironments, {"ls -la /", "--"}, {1000})

Next ==
    \/ Build
    \/ LaunchFails
    \/ LaunchOk
    \/ Tick
    \/ ChildExits
    \/ DecodeFails
    \/ DeadlineKill
    \/ DeadlineReap
    \/ Combine
    \/ AppendStderr
    \/ AppendExitCode
    \/ ReturnOutput
    \/ HandleException

Spec == Init /\ [][Next]_vars

\* The same call with time passing and the interpreter running on.
FairSpec == Spec /\ WF_vars(Next)

\* The builder and the front-end, for every environment, command and uid of the model.
BuildInit == InitWith(Environments, Commands, Uids)

BuildNext ==
    \/ Build
    \/ LaunchOk

BuildSpec == BuildInit /\ [][BuildNext]_vars

(***************************************************************************)
(* Several invocations, each in the sandbox bwrap sets up from its own     *)
(* vector: a fresh tmpfs per --tmpfs, the host's files through the binds,  *)
(* a process namespace of its own with --unshare-pid.  The sandboxed       *)
(* command may write, read and start background processes as it likes.     *)
(***************************************************************************)
IsoInit == InitWith({IsoEnviron}, IsoCommands, {1000})

\* An invocation builds its vector and bwrap sets its sandbox up: empty tmpfs
\* mounts, and the shell as its first process.
StartCall(c) ==
    /\ calls[c].phase = "idle"
    /\ \E sb \in {Sandbox(BuildArgs(uid, environ, command), environ)} :
          /\ sb.ok
          /\ calls' = [calls EXCEPT ![c] =
                         [ phase |-> "running", mounts |-> sb.mounts, flags |-> sb.flags,
                           scratch |-> {}, procs |-> 1, saw |-> {} ]]
    /\ UNCHANGED host
    /\ UNCHANGED callVars

\* The command writes a file: into its own tmpfs, through a writable bind into the
\* host, or not at all.
SandboxWrite(c, path) ==
    /\ calls[c].phase = "running"
    /\ LET how == WriteOutcome(calls[c].mounts, path)
       IN  /\ calls' = [calls EXCEPT ![c].scratch =
                          IF how = "scratch" THEN @ \cup {path} ELSE @]
           /\ host' = IF how = "host"
                      THEN {f \in host : f[1] # path} \cup {<<path, c>>}
                      ELSE host
    /\ UNCHANGED callVars

\* What the command finds at a path: its own tmpfs file, the host's file through a
\* bind, or nothing.
FileSeen(c, path) ==
    LET k == ServingMount(calls[c].mounts, path)
    IN  IF k = 0 THEN {<<path, NoFile>>}
        ELSE IF calls[c].mounts[k].kind = "--tmpfs"
        THEN (IF path \in calls[c].scratch THEN {<<path, c>>} ELSE {<<path, NoFile>>})
        ELSE IF calls[c].mounts[k].src # ""
        THEN (IF \E f \in host : f[1] = path
              THEN {f \in host : f[1] = path} ELSE {<<path, NoFile>>})
        ELSE {<<path, NoFile>>}

\* The command reads a path.
SandboxRead(c, path) ==
    /\ calls[c].phase = "running"
    /\ calls' = [calls EXCEPT ![c].saw = @ \cup FileSeen(c, path)]
    /\ UNCHANGED host
    /\ UNCHANGED callVars

\* The command starts a background process.
SandboxSpawn(c) ==
    /\ calls[c].phase = "running"
    /\ calls[c].procs <= MaxProcs
    /\ calls' = [calls EXCEPT ![c].procs = @ + 1]
    /\ UNCHANGED host
    /\ UNCHANGED callVars

\* The shell exits and the call returns: with --unshare-pid the namespace's first
\* process ends and the kernel kills every process left in it; the tmpfs mounts go
\* with the sandbox.
CallCompletes(c) ==
    /\ calls[c].phase = "running"
    /\ calls' = [calls EXCEPT ![c].phase = "returned",
                              ![c].scratch = {},
                              ![c].procs = IF "--unshare-pid" \in calls[c].flags
                                           THEN 0 ELSE @ - 1]
    /\ UNCHANGED host
    /\ UNCHANGED callVars

\* The deadline passes, bwrap is killed and the call returns: with
\* --die-with-parent the shell dies with bwrap, and with --unshare-pid every
\* process of the namespace dies with it.
CallTimesOut(c) ==
    /\ calls[c].phase = "running"
    /\ calls' = [calls EXCEPT ![c].phase = "returned",
                              ![c].scratch = {},
                              ![c].procs =
                                  IF "--die-with-parent" \notin calls[c].flags THEN @
                                  ELSE IF "--unshare-pid" \in calls[c].flags THEN 0
                                  ELSE @ - 1]
    /\ UNCHANGED host
    /\ UNCHANGED callVars

IsoNext ==
    \E c \in CallIds :
        \/ StartCall(c)
        \/ \E path \in IsoPaths : SandboxWrite(c, path)
        \/ \E path \in IsoPaths : SandboxRead(c, path)
        \/ SandboxSpawn(c)
        \/ CallCompletes(c)
        \/ CallTimesOut(c)

IsoSpec == IsoInit /\ [][IsoNext]_vars

(***************************************************************************)
(* Claims about the argument vector (checked under BuildSpec).             *)
(***************************************************************************)
\* bwrap has read the vector: sandbox holds the options it read, in order.
Launched == pc = "wait"

Parsed == sandbox

OpsOf(o) == {k \in 1..Len(Parsed.ops) : Parsed.ops[k].opt = o}

SetenvNames == {Parsed.ops[k].args[1] : k \in OpsOf("--setenv")}

\* The names the policy allows, stated from the ambient environment alone.
AllowedNames ==
    {"PATH", "HOME", "USER"}
        \cup ({"LANG", "COLORTERM", "EDITOR", "VISUAL", "PAGER"} \cap EnvNames(environ))
        \cup {n \in EnvNames(environ) : Len(n) >= 3 /\ SubSeq(n, 1, 3) = "LC_"}

\* C2: the names passed by --setenv are exactly PATH, HOME, USER, the allow-listed
\* display variables present in the ambient environment and the ambient names that
\* start with LC_; --clearenv comes before every --setenv; and so the command's
\* environment holds those names and no other ambient variable.
Thm_C2 ==
    /\ Launched =>
         /\ Parsed.ok
         /\ SetenvNames = AllowedNames
         /\ Cardinality(OpsOf("--clearenv")) = 1
         /\ \A c \in OpsOf("--clearenv"), k \in OpsOf("--setenv") : c < k
    /\ Launched =>
         /\ {e[1] : e \in sandbox.env} = AllowedNames
         /\ \A e \in sandbox.env : e[1] \in EnvNames(environ) => e[2] = EnvLookup(environ, e[1])

\* A secret-bearing variable and a locale variable are in the ambient environment,
\* and the command runs with the locale variable and without the secret.
Wit_C2 ==
    /\ pc = "wait"
    /\ {"SSH_AUTH_SOCK", "LC_ALL"} \subseteq EnvNames(environ)
    /\ "LC_ALL" \in {e[1] : e \in sandbox.env}
    /\ "SSH_AUTH_SOCK" \notin {e[1] : e \in sandbox.env}

\* The group of the ordering an option belongs to, 0 for an option of no group.
GroupOf(o) ==
    CASE o = "--die-with-parent" -> 1
      [] o \in {"--ro-bind", "--dev", "--proc", "--tmpfs", "--dir"} -> 2
      [] o \in {"--unshare-pid", "--unshare-cgroup", "--unshare-ipc", "--unshare-net"} -> 3
      [] o = "--cap-drop" -> 4
      [] o \in {"--clearenv", "--setenv"} -> 5
      [] o \in {"--chdir", "--new-session"} -> 6
      [] OTHER -> 0

NotSetenv(op) == op.opt # "--setenv"

\* The options other than --setenv, each as the words it takes in the vector.
Words(op) == << op.opt >> \o op.args

FixedOptions(ops) ==
    LET rest == SelectSeq(ops, NotSetenv)
    IN  [k \in 1..Len(rest) |-> Words(rest[k])]

ExpectedOptions(u, dir) ==
    << << "--die-with-parent" >>,
       << "--ro-bind", "/", "/" >>, << "--dev", "/dev" >>, << "--proc", "/proc" >>,
       << "--tmpfs", "/tmp" >>, << "--tmpfs", "/var" >>, << "--tmpfs", "/run" >>,
       << "--dir", "/run/user/" \o IntToStr(u) >>,
       << "--unshare-pid" >>, << "--unshare-cgroup" >>, << "--unshare-ipc" >>,
       << "--unshare-net" >>,
       << "--cap-drop", "ALL" >>,
       << "--clearenv" >>,
       << "--chdir", dir >>, << "--new-session" >> >>

\* The position of the terminator: right after the last option's operands.
TerminatorPos ==
    IF Parsed.ops = << >> THEN 2
    ELSE Parsed.ops[Len(Parsed.ops)].pos + 1 + Len(Parsed.ops[Len(Parsed.ops)].args)

\* C7: --die-with-parent comes first, then the mount operations, then the four
\* --unshare flags, then --cap-drop ALL, then --clearenv followed by the --setenv
\* triples, then --chdir and --new-session, then "--", "/bin/sh", "-c" and the
\* command; nothing of a later group stands before something of an earlier one.
Thm_C7 ==
    Launched =>
      /\ Parsed.ok
      /\ bwrap_args[1] = "bwrap"
      /\ \A k \in 1..Len(Parsed.ops) : GroupOf(Parsed.ops[k].opt) \in 1..6
      /\ \A j, k \in 1..Len(Parsed.ops) :
            j < k => GroupOf(Parsed.ops[j].opt) <= GroupOf(Parsed.ops[k].opt)
      /\ FixedOptions(Parsed.ops) = ExpectedOptions(uid, EnvGet(environ, "PWD", "/tmp"))
      /\ \A c \in OpsOf("--clearenv"), k \in OpsOf("--setenv") : c < k
      /\ Len(bwrap_args) = TerminatorPos + 3
      /\ SubSeq(bwrap_args, TerminatorPos, Len(bwrap_args)) = << "--", "/bin/sh", "-c", command >>

\* A vector with forwarded display and locale variables has been built.
Wit_C7 ==
    /\ Launched
    /\ Cardinality(OpsOf("--setenv")) = 5
    /\ {"LANG", "LC_CTYPE"} \subseteq SetenvNames
    /\ Len(bwrap_args) = 46

\* The --setenv pairs the ambient environment calls for.
ExpectedSetenv ==
    { << "PATH", EnvGet(environ, "PATH", "/usr/bin:/bin:/usr/sbin:/sbin") >>,
      << "HOME", EnvGet(environ, "HOME", "/tmp") >>,
      << "USER", EnvGet(environ, "USER", "sandbox") >> }
      \cup { e \in EnvAsSet(environ) : e[1] \in AllowedNames }

\* The positions of the vector at which bwrap reads an option.
OptionPositions == {Parsed.ops[k].pos : k \in 1..Len(Parsed.ops)}

\* The options this tool ever passes.
ToolOptions ==
    { "--die-with-parent", "--ro-bind", "--dev", "--proc", "--tmpfs", "--dir",
      "--unshare-pid", "--unshare-cgroup", "--unshare-ipc", "--unshare-net",
      "--cap-drop", "--clearenv", "--setenv", "--chdir", "--new-session" }

\* C10: whatever the command and the ambient values are, bwrap reads none of them
\* as an option: the command is the one word after "--", "/bin/sh", "-c", ending the
\* vector; every ambient value is the value operand of a --setenv or of --chdir; and
\* the isolation in force (flags, mounts, dropped capabilities) is always the same.
Thm_C10 ==
    /\ Launched =>
         /\ Parsed.ok
         /\ Parsed.cmd = << "/bin/sh", "-c", command >>
         /\ bwrap_args[Len(bwrap_args) - 3] = "--"
         /\ Len(bwrap_args) - 3 \notin OptionPositions
         /\ \A i \in OptionPositions : bwrap_args[i] \in ToolOptions
         /\ {<<Parsed.ops[k].args[1], Parsed.ops[k].args[2]>> : k \in OpsOf("--setenv")}
                = ExpectedSetenv
         /\ Cardinality(OpsOf("--setenv")) = Cardinality(ExpectedSetenv)
         /\ \A k \in OpsOf("--chdir") : Parsed.ops[k].args = << EnvGet(environ, "PWD", "/tmp") >>
         /\ Cardinality(OpsOf("--chdir")) = 1
    /\ Launched =>
         /\ sandbox.ok
         /\ sandbox.flags = { "--die-with-parent", "--unshare-pid", "--unshare-cgroup",
                              "--unshare-ipc", "--unshare-net", "--clearenv",
                              "--new-session" }
         /\ [k \in 1..Len(sandbox.mounts) |-> sandbox.mounts[k].kind]
                = << "--ro-bind", "--dev", "--proc", "--tmpfs", "--tmpfs", "--tmpfs" >>
         /\ \A k \in OpsOf("--cap-drop") : Parsed.ops[k].args = << "ALL" >>
         /\ Cardinality(OpsOf("--cap-drop")) = 1
         /\ sandbox.cmd = << "/bin/sh", "-c", command >>

\* The command is itself a bwrap flag and ambient values read like options, and the
\* sandbox is set up all the same.
Wit_C10 ==
    /\ pc = "wait"
    /\ command = "--share-net"
    /\ EnvHas(environ, "PWD") /\ EnvLookup(environ, "PWD") = "--share-net"
    /\ EnvHas(environ, "LANG") /\ EnvLookup(environ, "LANG") = "--setenv"
    /\ "--unshare-net" \in sandbox.flags

\* Paths a sandboxed command may try to write to.
ProbePaths ==
    { "/", "/usr/test_file", "/home/testfile", "/etc/hostname", "/tmpfile", "/variable",
      "/tmp", "/tmp/testfile", "/var/tmp/x", "/run/lock", "/run/user",
      "/run/user/" \o IntToStr(uid), "/run/user/" \o IntToStr(uid) \o "/bus",
      "/dev/null", "/proc/self/comm" }
        \cup { EnvLookup(environ, n) \o "/testfile" :
                 n \in {m \in {"HOME"} : EnvHas(environ, m) /\ StartsWith(EnvLookup(environ, m), "/")} }

UnderScratch(path) ==
    \E d \in {"/tmp", "/var", "/run"} : path = d \/ StartsWith(path, d \o "/")

UnderPseudo(path) ==
    \E d \in {"/dev", "/proc"} : path = d \/ StartsWith(path, d \o "/")

IsBind(m) == m.src # ""

IsDir(op) == op.opt = "--dir"

\* The one exposure of host files is the read-only bind of / onto /, performed
\* first, and /run/user/<uid> is created after /run has been mounted.
HostExposure ==
    /\ SelectSeq(sandbox.mounts, IsBind) = << [kind |-> "--ro-bind", src |-> "/", dest |-> "/"] >>
    /\ sandbox.mounts[1].kind = "--ro-bind"
    /\ LET dirs == SelectSeq(sandbox.ops, IsDir)
       IN  /\ Len(dirs) = 1
           /\ dirs[1].args = << "/run/user/" \o IntToStr(uid) >>
           /\ \A k \in 1..Len(sandbox.ops) :
                 (sandbox.ops[k].opt = "--tmpfs" /\ sandbox.ops[k].args = << "/run" >>)
                     => sandbox.ops[k].pos < dirs[1].pos

Returned == pc = "returned"

\* The child completed and the normaliser formatted its result.
Completed == exc.cls = ""

TimeoutSentinel == "[Error: Command timed out after 60 seconds]"

MissingToolSentinel ==
    "[Error: bubblewrap (bwrap) not found. Please install bubblewrap: apt-get install bubblewrap]"

NoOutputSentinel == "[No output]"

\* C1: whatever the command and the outcome of the supervisor (the child completed
\* with any exit code, the deadline expired, bwrap was not found, any other
\* exception at launch), no exception leaves sandboxed_shell, the call goes on until
\* it returns, and timeout, missing tool and launch failure are reported in the
\* returned text.
Thm_C1 ==
    /\ raised = ""
    /\ pc # "raised"
    /\ ~Returned => ENABLED Next
    /\ Returned =>
         /\ exc.cls = "TimeoutExpired" => ret = TimeoutSentinel
         /\ exc.cls = "FileNotFoundError" => ret = MissingToolSentinel
         /\ exc.cls \notin {"", "TimeoutExpired", "FileNotFoundError"} =>
               ret = "[Error executing command: " \o exc.msg \o "]"
         /\ Completed => StartsWith(ret, result.stdout) \/ ret = NoOutputSentinel

\* A launch failure that is no OSError has been reported in the returned text.
Wit_C1 ==
    /\ Returned
    /\ exc.cls = "ValueError"
    /\ ret = "[Error executing command: embedded null byte]"

\* The child was still running when the deadline elapsed.
RanPastDeadline == pc = "wait" /\ child = "running" /\ clock = TimeoutSeconds

TimedOutReturn == Returned /\ exc.cls = "TimeoutExpired"

\* C4: a command still running when the 60-second deadline elapses is killed and
\* reaped, and the call eventually returns the timeout sentinel, which names the
\* deadline that was enforced; the call never hangs, and a command that ran past
\* the deadline never yields formatted output or "[No output]".
Thm_C4 ==
    /\ [](/\ child = "killed" => clock = 60
          /\ child = "running" => clock <= 60
          /\ child \in {"killed", "reaped"} =>
                /\ pc \in {"wait", "except", "returned"}
                /\ result = NoResult /\ output = ""
                /\ pc # "wait" =>
                      /\ child = "reaped"
                      /\ exc.cls = "TimeoutExpired"
                      /\ exc.msg = "Command timed out after " \o IntToStr(clock) \o " seconds"
          /\ exc.cls = "TimeoutExpired" => child = "reaped"
          /\ TimedOutReturn =>
                /\ ret = "[Error: Command timed out after 60 seconds]"
                /\ ret = "[Error: " \o exc.msg \o "]")
    /\ RanPastDeadline ~> (TimedOutReturn /\ child = "reaped" /\ ret = TimeoutSentinel)
    /\ (pc = "wait") ~> Returned

\* The deadline elapsed, the child was killed and reaped, and the sentinel returned.
Wit_C4 ==
    /\ TimedOutReturn
    /\ clock = 60
    /\ child = "reaped"
    /\ ret = TimeoutSentinel

\* The numeral of the exit-code annotation the text ends with; "" when the text
\* does not end with one.
TrailingExitCode(text) ==
    LET lens == {n \in 1..Len(text) :
                    /\ Len(text) >= n + 14
                    /\ SubSeq(text, Len(text), Len(text)) = "]"
                    /\ SubSeq(text, Len(text) - n - 13, Len(text) - n - 1) = "\n[Exit code: "
                    /\ IsNumeral(SubSeq(text, Len(text) - n, Len(text) - 1))}
    IN  IF lens = {} THEN ""
        ELSE LET n == CHOOSE m \in lens : \A j \in lens : m <= j
             IN  SubSeq(text, Len(text) - n, Len(text) - 1)

\* C5: for a command that completes before the deadline with exit code N, the
\* returned text ends with the annotation "[Exit code: N]" of exactly that N when N
\* is not 0, and the formatter appends no annotation when N is 0.
Thm_C5 ==
    /\ Returned /\ Completed /\ result.returncode # 0 =>
         /\ TrailingExitCode(ret) # ""
         /\ ParseInt(TrailingExitCode(ret)) = result.returncode
         /\ EndsWith(ret, "[Exit code: " \o TrailingExitCode(ret) \o "]")
    /\ pc \in {"return", "returned"} /\ Completed /\ result.returncode = 0 =>
         output = result.stdout
                    \o (IF result.stderr = "" THEN "" ELSE "\n[stderr]:\n" \o result.stderr)

\* A child killed by a signal has completed, and its negative code is annotated.
Wit_C5 ==
    /\ Returned
    /\ Completed
    /\ result.returncode = 0 - 9
    /\ EndsWith(ret, "\n[Exit code: -9]")

ExitAnnotations ==
    {""} \cup {"\n[Exit code: " \o IntToStr(rc) \o "]" : rc \in ReturnCodes \ {0}}

\* C6: for a command that completes before the deadline with non-empty stderr, the
\* returned text holds all of stderr, after all of stdout and the "[stderr]:" label
\* and before any exit-code annotation; when stderr is empty the formatter appends
\* no "[stderr]:" label.
Thm_C6 ==
    /\ Returned /\ Completed /\ result.stderr # "" =>
         \E tail \in ExitAnnotations :
            /\ ret = result.stdout \o "\n[stderr]:\n" \o result.stderr \o tail
            /\ tail = "" <=> result.returncode = 0
    /\ pc \in {"exitcode", "return", "returned"} /\ Completed /\ result.stderr = "" =>
         \E tail \in ExitAnnotations : output = result.stdout \o tail

\* A command with output on both streams and a non-zero exit code has returned.
Wit_C6 ==
    /\ Returned
    /\ Completed
    /\ result.stdout = "hi\n"
    /\ result.stderr = "sh: 1: nope: not found\n"
    /\ result.returncode = 42
    /\ ret = "hi\n\n[stderr]:\nsh: 1: nope: not found\n\n[Exit code: 42]"

Silent == result.stdout = "" /\ result.stderr = "" /\ result.returncode = 0

\* C9 as claimed: the returned string is never empty; for a completed command it is
\* "[No output]" exactly when stdout and stderr are empty and the exit code is 0;
\* in every other outcome it is a non-empty string other than that sentinel.
Orig_C9 ==
    Returned =>
      /\ ret # ""
      /\ Completed => (ret = NoOutputSentinel <=> Silent)
      /\ ~Completed => ret # NoOutputSentinel

\* C9 as amended: the returned string is never empty; for a completed command with
\* empty stdout, empty stderr and exit code 0 it is "[No output]"; for every other
\* completed command it is the non-empty combined text, which is "[No output]" only
\* when the command itself wrote exactly that to stdout, wrote nothing to stderr
\* and exited with 0; for a timeout, a missing tool or a launch failure it is a
\* non-empty string other than "[No output]".
Thm_C9 ==
    Returned =>
      /\ ret # ""
      /\ Completed /\ Silent => ret = NoOutputSentinel
      /\ Completed /\ ~Silent =>
            /\ ret = output
            /\ StartsWith(ret, result.stdout)
            /\ Len(ret) >= Len(result.stdout) + Len(result.stderr)
            /\ ret = NoOutputSentinel =>
                  result.stdout = NoOutputSentinel /\ result.stderr = "" /\ result.returncode = 0
      /\ ~Completed => ret # NoOutputSentinel

\* A command that wrote "[No output]" to stdout has returned.
Wit_C9 ==
    /\ Returned
    /\ Completed
    /\ result.stdout = "[No output]"
    /\ result.stderr = ""
    /\ result.returncode = 0
    /\ ret = "[No output]"

(***************************************************************************)
(* The claim about invocations side by side (checked under IsoSpec).       *)
(***************************************************************************)
\* C8: whatever the interleaving of the invocations, none sees what another left:
\* under /tmp, /var and /run an invocation finds only files it wrote itself in this
\* call, elsewhere only the host's own files; no process of an invocation is left
\* when it has returned; and the host's files are never changed.
Thm_C8 ==
    /\ host = HostInitial
    /\ \A c \in CallIds :
          /\ \A f \in calls[c].saw :
                /\ f[2] \in {NoFile, HostWriter, c}
                /\ UnderScratch(f[1]) => f[2] \in {NoFile, c}
                /\ (f[2] = c /\ calls[c].phase = "running") => f[1] \in calls[c].scratch
          /\ calls[c].phase = "returned" => calls[c].procs = 0 /\ calls[c].scratch = {}
          /\ calls[c].phase = "idle" => calls[c] = IdleCall

\* One invocation has written and read back a file under /tmp and returned, with a
\* background process started; another, still running, has looked for that file
\* and has not found it.
Wit_C8 ==
    /\ calls[1].phase = "running"
    /\ << "/tmp/testfile", 1 >> \in calls[1].saw
    /\ calls[1].procs = 2
    /\ calls[2].phase = "running"
    /\ calls[2].saw = { << "/tmp/testfile", NoFile >>, << "/etc/hostname", HostWriter >> }

=============================================================================
